---- MODULE Spec2Model ----
(***************************************************************************)
(* Model of beacon_node/execution_layer/src/engines.rs: the Engine         *)
(* coordinator (health state + watch channel behind an RwLock, the        *)
(* payload-id LRU cache behind a Mutex, the latest forkchoice state       *)
(* behind an RwLock) and its asynchronous operations.  Every `.await` of  *)
(* the source is a place where a task can be suspended, so each operation *)
(* is cut into one action per await point; `pc[t]` is the position of     *)
(* task t.  A guard that is acquired, used and dropped with no await in   *)
(* between is one action, enabled when the lock can be acquired.          *)
(***************************************************************************)
EXTENDS Integers, Sequences, FiniteSets, TLC

\* ---------------------------------------------------------------- bounds
\* Number of task slots (tasks that can be in flight at the same time).
NumTasks == 2
\* Number of tasks (operations called, upchecks spawned) started in one
\* behaviour.
MaxOps == 3
\* Block hashes are 0..MaxHash; 0 is ExecutionBlockHash::zero().
MaxHash == 1
\* Payload attributes are 1..MaxAttrs.
MaxAttrs == 2
\* Payload ids are 1..MaxPayloadId.
MaxPayloadId == 1
\* Successful results of a request's op are 1..MaxResult.
MaxResult == 1

\* ------------------------------------------------------------- constants
PAYLOAD_ID_LRU_CACHE_SIZE == 512

Tasks == 1..NumTasks
NoTask == 0

\* Option<T>: None is the empty tuple, Some(x) the one-element tuple.
None == <<>>
Some(x) == <<x>>

\* A local of a task that holds nothing yet.
Unset == "-"
NotRead == <<"-", "-">>

Hashes == 0..MaxHash
ZeroHash == 0
Attrs == 1..MaxAttrs
PayloadIds == 1..MaxPayloadId

\* enum EngineStateInternal
EngineStateInternal == {"Synced", "Offline", "Syncing", "AuthFailed"}

\* enum EngineState
EngineState == {"Online", "Offline"}

\* EngineApiError, as far as the coordinator distinguishes its variants.
ApiErrors == {"IsSyncing", "Auth", "Other"}

\* Result<(), EngineApiError> of api.upcheck()
ProbeResults == {"Ok"} \cup ApiErrors

\* struct ForkchoiceState
ForkchoiceStates ==
  [head_block_hash : Hashes, safe_block_hash : {ZeroHash},
   finalized_block_hash : {ZeroHash}]

\* Result<H, EngineApiError> of the op handed to request()
OpResults == {<<"Ok", v>> : v \in 1..MaxResult} \cup {<<"Err", e>> : e \in ApiErrors}

\* Result<ForkchoiceUpdatedResponse, EngineApiError>; of the response only
\* payload_id : Option<PayloadId> is read by the coordinator.
FcuResults ==
  {<<"Ok", p>> : p \in {Some(i) : i \in PayloadIds} \cup {None}} \cup {<<"Err", e>> : e \in ApiErrors}

\* impl From<EngineStateInternal> for EngineState
EngineStateFrom(s) ==
  IF s \in {"Synced", "Syncing"} THEN "Online" ELSE "Offline"

\* Variant: the default variant of EngineStateInternal is Synced.
StateDefault_Synced ==
  [state |-> "Synced", notifier |-> [value |-> "Online", version |-> 0]]

\* impl Default for State: the default internal state and a channel
\* created with its projection.  `version` counts the change notifications
\* the watch channel has emitted.
StateDefault ==
  [state |-> "Offline",
   notifier |-> [value |-> EngineStateFrom("Offline"), version |-> 0]]

\* Variant: every update notifies the receivers.
SendIfModified_Always(n, new_state) ==
  [value |-> EngineStateFrom(new_state), version |-> n.version + 1]

\* Variant: the closure compares but does not store the new value.
SendIfModified_NoStore(n, new_state) ==
  LET changed == n.value # EngineStateFrom(new_state)
  IN  [value |-> n.value,
       version |-> IF changed THEN n.version + 1 ELSE n.version]

\* watch::Sender::send_if_modified with the closure of State::update: the
\* stored value is overwritten unconditionally, receivers are notified
\* (the version advances) only when the closure returns `changed`.
SendIfModified(n, new_state) ==
  LET changed == n.value # EngineStateFrom(new_state)
  IN  [value |-> EngineStateFrom(new_state),
       version |-> IF changed THEN n.version + 1 ELSE n.version]

\* Variant: an authentication failure is treated like any other error.
UpcheckNewState_AuthAsOffline(p) ==
  CASE p = "Ok" -> "Synced"
    [] p = "IsSyncing" -> "Syncing"
    [] OTHER -> "Offline"

\* The internal state each arm of the match in upcheck() writes.
UpcheckNewState(p) ==
  CASE p = "Ok" -> "Synced"
    [] p = "IsSyncing" -> "Syncing"
    [] p = "Auth" -> "AuthFailed"
    [] OTHER -> "Offline"

\* Variant: the last arm (any other error) refreshes instead of clearing.
UpcheckCacheAction_OtherRefreshes(p) ==
  IF p \in {"Ok", "IsSyncing", "Other"} THEN "Update" ELSE "Clear"

\* Variant: the authentication arm refreshes instead of clearing.
UpcheckCacheAction_AuthRefreshes(p) ==
  IF p \in {"Ok", "IsSyncing", "Auth"} THEN "Update" ELSE "Clear"

\* Variant: the syncing arm clears instead of refreshing.
UpcheckCacheAction_SyncingClears(p) ==
  IF p = "Ok" THEN "Update" ELSE "Clear"

\* The ResponseCacheAction each arm of the match in upcheck() yields.
UpcheckCacheAction(p) ==
  IF p \in {"Ok", "IsSyncing"} THEN "Update" ELSE "Clear"

\* upcheck(), Ok arm: `if **state != EngineStateInternal::Synced`
\* Variant: every successful probe re-issues the forkchoice state.
UpcheckSendsLatest_Always(p, s) == p = "Ok"

UpcheckSendsLatest(p, s) == p = "Ok" /\ s # "Synced"

\* Variant: the zero-hash test is missing.
NeedsForkchoiceCall_NoZeroTest(fs) == fs # None

\* send_latest_forkchoice_state: a call is made iff a state is stored and
\* its head is not the zero hash.
NeedsForkchoiceCall(fs) ==
  fs # None /\ fs[1].head_block_hash # ZeroHash

\* Variant: an upcheck is spawned after every successful op.
SpawnAfterSuccess_Always(s) == TRUE

\* Variant: no upcheck is spawned after a successful op.
SpawnAfterSuccess_Never(s) == FALSE

\* request(), Ok arm: `if state != EngineStateInternal::Synced`
SpawnAfterSuccess(s) == s # "Synced"

\* Variant: an authentication error is returned as EngineError::Auth.
RequestResult_AuthVariant(r) ==
  IF r[1] = "Ok" THEN r
  ELSE IF r[2] = "Auth" THEN <<"Err", <<"Auth">>>>
  ELSE <<"Err", <<"Api", r[2]>>>>

\* request(): the value returned for op's outcome.
RequestResult(r) ==
  IF r[1] = "Ok" THEN r ELSE <<"Err", <<"Api", r[2]>>>>

\* Variant: the key leaves the payload attributes out.
PayloadIdCacheKey_HeadOnly(head_block_hash, attributes) ==
  [head_block_hash |-> head_block_hash, payload_attributes |-> 1]

\* struct PayloadIdCacheKey / PayloadIdCacheKey::new
PayloadIdCacheKey(head_block_hash, attributes) ==
  [head_block_hash |-> head_block_hash, payload_attributes |-> attributes]

\* LruCache<PayloadIdCacheKey, PayloadId>: the entries <<key, id>>, the
\* most recently used first.
\* The position of the entry for k (a key has at most one), or 0.
LruFind(c, k) ==
  LET at == {i \in 1..Len(c) : c[i][1] = k}
  IN  IF at = {} THEN 0 ELSE CHOOSE i \in at : \A j \in at : i <= j

LruWithout(c, i) == SubSeq(c, 1, i - 1) \o SubSeq(c, i + 1, Len(c))

\* LruCache::get(..).cloned(): the id stored for k, if any.
LruGet(c, k) ==
  LET i == LruFind(c, k) IN IF i = 0 THEN None ELSE Some(c[i][2])

\* Variant: the lookup is a peek, which leaves the order as it is.
LruTouch_Peek(c, k) == c

\* LruCache::get marks the entry it finds as the most recently used.
LruTouch(c, k) ==
  LET i == LruFind(c, k)
  IN  IF i = 0 THEN c ELSE <<c[i]>> \o LruWithout(c, i)

\* LruCache::put: update in place or insert, as the most recently used;
\* a full cache first drops its least recently used entry.
LruPut(c, k, v) ==
  LET i == LruFind(c, k)
  IN  IF i # 0 THEN <<<<k, v>>>> \o LruWithout(c, i)
      ELSE IF Len(c) >= PAYLOAD_ID_LRU_CACHE_SIZE
        THEN <<<<k, v>>>> \o SubSeq(c, 1, Len(c) - 1)
        ELSE <<<<k, v>>>> \o c

\* notify_forkchoice_updated: the cache key when a payload id came back
\* and payload attributes were supplied, else None.
\* Variant: a payload id that comes without attributes is stored under
\* the head and the first attributes instead of being discarded.
NotifyCacheKey_KeepsUnexpectedId(forkchoice_state, payload_attributes, r) ==
  IF r[1] = "Ok" /\ r[2] # None
    THEN Some(PayloadIdCacheKey(forkchoice_state.head_block_hash,
                                IF payload_attributes # None THEN payload_attributes[1] ELSE 1))
    ELSE None

NotifyCacheKey(forkchoice_state, payload_attributes, r) ==
  IF r[1] = "Ok" /\ r[2] # None /\ payload_attributes # None
    THEN Some(PayloadIdCacheKey(forkchoice_state.head_block_hash, payload_attributes[1]))
    ELSE None

\* is_synced / is_offline / watch_state: what is read under the read guard.
ReaderResult(op, s, n) ==
  CASE op = "is_synced" -> <<s = "Synced">>
    [] op = "is_offline" -> <<EngineStateFrom(s) = "Offline">>
    [] OTHER -> <<n.value, n.version>>

ReaderOps == {"is_synced", "is_offline", "watch_state"}

\* Variant: the stream is made of the changes only (no first item).
Subscribe_FromChanges(n) ==
  [born |-> n.version, seen |-> n.version, fresh |-> FALSE, items |-> <<>>]

\* State::watch: `self.notifier.subscribe().into()`.  The receiver starts
\* with the current version marked as seen; the WatchStream made of it
\* has its first item still to yield.  `born` keeps the version at
\* creation, `items` what the stream has yielded.
Subscribe(n) ==
  [born |-> n.version, seen |-> n.version, fresh |-> TRUE, items |-> <<>>]

\* WatchStream::poll_next has an item when the stream is new or the
\* channel's version is not the one the receiver has seen ...
HasItem(w, n) == w.fresh \/ w.seen # n.version

\* ... and yields the value in the channel, marking its version as seen.
Yield(w, n) ==
  [w EXCEPT !.seen = n.version, !.fresh = FALSE, !.items = Append(@, n.value)]

\* tokio::sync::RwLock: one writer or any number of readers.
FreeLock == [writer |-> NoTask, readers |-> {}]
CanRead(l) == l.writer = NoTask
CanWrite(l) == l.writer = NoTask /\ l.readers = {}

\* Variant: the write guard lives until the end of upcheck().
UpcheckDropGuard_Keep(l) == l

\* The write guard of upcheck() goes out of scope at the end of its match arm.
UpcheckDropGuard(l) == [l EXCEPT !.writer = NoTask]

\* ---------------------------------------- the call surface's own caches
\* The call surface (HttpJsonRpc) keeps one cached response for the
\* capabilities and one for the version, each behind its own mutex.
Responses == {"capabilities", "version"}

\* age_limit : Option<Duration>.  None always accepts a cached response;
\* with Some(limit) the cached response can have become too old
\* (Some(Duration::ZERO) is the limit every response is too old for).
AgeLimits == {None, Some("limit")}

\* The mutex of a cache: its holder, and for the fetch made under it the
\* number of authentication failures seen when it was issued.
NoFetch == [holder |-> NoTask, since |-> 0]

\* get_engine_capabilities(age_limit) / get_engine_version(age_limit): the
\* cached response is returned if there is one and it is not older than
\* age_limit; otherwise the response is fetched from the endpoint.
ResponseHit(c, w, age_limit, expired) ==
  c[w] # None /\ (age_limit = None \/ ~expired)

\* A fetched response populates the cache.
ResponseStore(c, w, v) == [c EXCEPT ![w] = Some(v)]

\* clear_exchange_capabilties_cache / clear_engine_version_cache
ResponseClear(c, w) == [c EXCEPT ![w] = None]

\* The call upcheck() makes on cache w for a cache action.
CacheCall(action, w) ==
  IF action = "Update"
    THEN (IF w = "capabilities" THEN <<"get_engine_capabilities", Some("limit")>>
          ELSE <<"get_engine_version", Some("limit")>>)
    ELSE (IF w = "capabilities" THEN <<"clear_exchange_capabilties_cache">>
          ELSE <<"clear_engine_version_cache">>)

\* upcheck() maintains the capabilities first, then the version.
CachePc(w) == IF w = "capabilities" THEN "up_cache1" ELSE "up_cache2"
FetchPc(w) == IF w = "capabilities" THEN "up_fetch1" ELSE "up_fetch2"

Max(a, b) == IF a >= b THEN a ELSE b

\* The record of the uses of the payload-id cache, with one more use.
Used(u, k, at, id) ==
  [x \in DOMAIN u \cup {k} |-> IF x = k THEN [at |-> at, id |-> id] ELSE u[x]]

VARIABLES
  state,                    \* State.state : EngineStateInternal
  notifier,                 \* State.notifier : the watch channel
  state_lock,               \* Engine.state : RwLock<State>
  latest_forkchoice_state,  \* Option<ForkchoiceState>
  fcs_lock,                 \* Engine.latest_forkchoice_state : RwLock
  payload_id_cache,         \* LruCache<PayloadIdCacheKey, PayloadId>
  cache_lock,               \* Engine.payload_id_cache : Mutex, its holder
  used,                     \* per <<head, attributes>> ever put: when it was last
                            \* used (put or found by a get) and the id last put
  use_count,                \* number of uses of the payload-id cache so far
  response_cache,           \* the call surface's cached capabilities and version
  response_lock,            \* the mutex of each of the two, and its fetch
  auth_failures,            \* number of probes that failed authentication so far
  auth_cleared,             \* the latest of them whose upcheck has completed
  watchers,                 \* the streams watch_state() has returned
  mark,                     \* upcheck: the number of its authentication failure;
                            \* get_engine_*: auth_cleared when it was called
  pc,                       \* position of each task
  arg,                      \* the arguments of the operation a task runs
  probe,                    \* upcheck: the result of api.upcheck()
  found,                    \* the internal state a task read under the lock
  latest,                   \* upcheck: the forkchoice state it read from the slot
  outcome,                  \* the endpoint's answer a task still has to use
  result,                   \* the value the operation returned
  calls,                    \* the endpoint calls a task issued, in order
  spawns,                   \* number of upchecks a request handed to the executor
  pending_upchecks,         \* upchecks spawned on the executor, not yet started
  started                   \* tasks started so far

vars ==
  <<state, notifier, state_lock, latest_forkchoice_state, fcs_lock,
    payload_id_cache, cache_lock, used, use_count, response_cache, response_lock,
    auth_failures, auth_cleared, watchers, mark, pc, arg,
    probe, found, latest, outcome, result, calls, spawns, pending_upchecks, started>>

health == <<state, notifier, state_lock>>
forkchoice == <<latest_forkchoice_state, fcs_lock>>
payloads == <<payload_id_cache, cache_lock, used, use_count>>
responses == <<response_cache, response_lock>>
failures == <<auth_failures, auth_cleared>>
shared == <<health, forkchoice, payloads, responses, failures, watchers>>

\* Engine::new
Init ==
  /\ state = StateDefault.state
  /\ notifier = StateDefault.notifier
  /\ state_lock = FreeLock
  /\ latest_forkchoice_state = None
  /\ fcs_lock = FreeLock
  /\ payload_id_cache = <<>>
  /\ cache_lock = NoTask
  /\ used = <<>>
  /\ use_count = 0
  /\ response_cache = [w \in Responses |-> None]
  /\ response_lock = [w \in Responses |-> NoFetch]
  /\ auth_failures = 0
  /\ auth_cleared = 0
  /\ watchers = <<>>
  /\ mark = [t \in Tasks |-> 0]
  /\ pc = [t \in Tasks |-> "idle"]
  /\ arg = [t \in Tasks |-> None]
  /\ probe = [t \in Tasks |-> Unset]
  /\ found = [t \in Tasks |-> Unset]
  /\ latest = [t \in Tasks |-> NotRead]
  /\ outcome = [t \in Tasks |-> None]
  /\ result = [t \in Tasks |-> None]
  /\ calls = [t \in Tasks |-> <<>>]
  /\ spawns = [t \in Tasks |-> 0]
  /\ pending_upchecks = 0
  /\ started = 0

Goto(t, l) == pc' = [pc EXCEPT ![t] = l]

\* The positions of a task whose operation has returned.
DonePcs == {"up_done", "rq_done", "rd_done", "sf_done", "nf_done", "gp_done", "ge_done"}

\* Task t is at position l.  The return of an operation is no await
\* point: a task that has returned is kept for one state, in which what
\* it did can be read, and its slot is freed before any other step.
At(t, l) == pc[t] = l /\ \A u \in Tasks : pc[u] \notin DonePcs

\* A new task runs in the free slot with the lowest number (slots are only
\* names of tasks, so nothing is lost).
FreeSlot(t) == At(t, "idle") /\ \A u \in Tasks : u < t => pc[u] # "idle"

\* -------------------------------------------------------------- upcheck
\* A caller invokes the public upcheck().
UpcheckCall(t) ==
  /\ FreeSlot(t) /\ started < MaxOps
  /\ started' = started + 1
  /\ Goto(t, "up_probe")
  /\ calls' = [calls EXCEPT ![t] = <<<<"upcheck">>>>]
  /\ UNCHANGED <<shared, arg, probe, mark, latest, found, outcome, result, spawns, pending_upchecks>>

\* The executor starts an upcheck that request() spawned.
UpcheckSpawned(t) ==
  /\ FreeSlot(t) /\ pending_upchecks > 0 /\ started < MaxOps
  /\ pending_upchecks' = pending_upchecks - 1
  /\ started' = started + 1
  /\ Goto(t, "up_probe")
  /\ calls' = [calls EXCEPT ![t] = <<<<"upcheck">>>>]
  /\ UNCHANGED <<shared, arg, probe, mark, latest, found, outcome, result, spawns>>

\* api.upcheck() returns; the task asks for the write lock.
ProbeReturn(t, p) ==
  /\ At(t, "up_probe")
  /\ probe' = [probe EXCEPT ![t] = p]
  /\ IF p = "Auth"
       THEN /\ auth_failures' = auth_failures + 1
            /\ mark' = [mark EXCEPT ![t] = auth_failures + 1]
       ELSE UNCHANGED <<auth_failures, mark>>
  /\ Goto(t, "up_wlock")
  /\ UNCHANGED <<watchers, health, forkchoice, payloads, responses, auth_cleared, arg, latest, found, outcome, result, calls, spawns,
                 pending_upchecks, started>>

\* `let mut state = self.state.write().await`, and in the Ok arm the test
\* of the state found.
\* Variant: the Ok arm updates the state as soon as it has the write
\* guard, before the forkchoice re-issue.
UpcheckAcquireWrite_UpdatesFirst(t) ==
  /\ At(t, "up_wlock") /\ CanWrite(state_lock)
  /\ state_lock' = [state_lock EXCEPT !.writer = t]
  /\ found' = [found EXCEPT ![t] = state]
  /\ state' = IF probe[t] = "Ok" THEN UpcheckNewState(probe[t]) ELSE state
  /\ notifier' = IF probe[t] = "Ok"
                   THEN SendIfModified(notifier, UpcheckNewState(probe[t])) ELSE notifier
  /\ Goto(t, IF UpcheckSendsLatest(probe[t], state) THEN "up_fcs_rlock" ELSE "up_set")
  /\ UNCHANGED <<watchers, forkchoice, payloads, responses, failures, arg, probe, mark, latest,
                 outcome, result, calls, spawns, pending_upchecks, started>>

UpcheckAcquireWrite(t) ==
  /\ At(t, "up_wlock") /\ CanWrite(state_lock)
  /\ state_lock' = [state_lock EXCEPT !.writer = t]
  /\ found' = [found EXCEPT ![t] = state]
  /\ Goto(t, IF UpcheckSendsLatest(probe[t], state) THEN "up_fcs_rlock" ELSE "up_set")
  /\ UNCHANGED <<watchers, state, notifier, forkchoice, payloads, responses, failures, arg, probe, mark, latest,
                 outcome, result, calls, spawns, pending_upchecks, started>>

\* send_latest_forkchoice_state: the read guard of the slot is acquired,
\* the slot copied and the guard dropped (no await in between); then
\* api.forkchoice_updated(forkchoice_state, None) is issued, or nothing.
SendLatestRead(t) ==
  /\ At(t, "up_fcs_rlock") /\ CanRead(fcs_lock)
  /\ latest' = [latest EXCEPT ![t] = latest_forkchoice_state]
  /\ IF NeedsForkchoiceCall(latest_forkchoice_state)
       THEN /\ calls' = [calls EXCEPT ![t] =
                 Append(@, <<"forkchoice_updated", latest_forkchoice_state[1], None>>)]
            /\ Goto(t, "up_fcu")
       ELSE /\ Goto(t, "up_set")
            /\ UNCHANGED calls
  /\ UNCHANGED <<shared, arg, probe, mark, found, outcome, result, spawns,
                 pending_upchecks, started>>

\* Variant: a failed re-issue ends the upcheck.
AfterReissue_ReturnOnError(r) == IF r[1] = "Err" THEN "up_done" ELSE "up_set"

\* send_latest_forkchoice_state: `if let Err(e) = .. { debug!(..) }`; it
\* returns nothing, and upcheck() goes on to state.update(Synced).
AfterReissue(r) == "up_set"

\* The re-issued forkchoice_updated returns; an error is only logged.
\* Whether it was one is kept in `outcome`.
SendLatestReturn(t, r) ==
  /\ At(t, "up_fcu")
  /\ outcome' = [outcome EXCEPT ![t] = <<r[1], IF r[1] = "Ok" THEN r[2] ELSE None>>]
  /\ Goto(t, AfterReissue(r))
  /\ UNCHANGED <<shared, arg, probe, mark, latest, found, result, calls, spawns,
                 pending_upchecks, started>>

\* State::update, first statement: `self.state = new_state`
UpdateSet(t) ==
  /\ At(t, "up_set")
  /\ state' = UpcheckNewState(probe[t])
  /\ Goto(t, "up_send")
  /\ UNCHANGED <<watchers, notifier, state_lock, forkchoice, payloads, responses, failures, arg, probe, mark, latest,
                 found, outcome, result, calls, spawns, pending_upchecks, started>>

\* State::update, second statement: send_if_modified; then the match arm
\* ends, the write guard is dropped and the first cache-maintenance call
\* is issued.
UpdateSend(t) ==
  /\ At(t, "up_send")
  /\ notifier' = SendIfModified(notifier, state)
  /\ state_lock' = UpcheckDropGuard(state_lock)
  /\ calls' = [calls EXCEPT ![t] =
        Append(@, CacheCall(UpcheckCacheAction(probe[t]), "capabilities"))]
  /\ Goto(t, "up_cache1")
  /\ UNCHANGED <<watchers, state, forkchoice, payloads, responses, failures, arg, probe, mark, latest, found,
                 outcome, result, spawns, pending_upchecks, started>>

\* What upcheck() does once its call on cache w has returned: the call on
\* the version follows the one on the capabilities (a refresh of the
\* capabilities that failed is not followed by one of the version); after
\* the call on the version upcheck() is complete.
AfterCacheCall(t, w, ok) ==
  IF w = "capabilities" /\ ok
    THEN /\ calls' = [calls EXCEPT ![t] =
              Append(@, CacheCall(UpcheckCacheAction(probe[t]), "version"))]
         /\ Goto(t, "up_cache2")
         /\ UNCHANGED auth_cleared
    ELSE /\ Goto(t, "up_done")
         /\ auth_cleared' = Max(auth_cleared, mark[t])
         /\ UNCHANGED calls

\* ResponseCacheAction::Update: get_engine_capabilities / get_engine_version
\* with CACHED_RESPONSE_AGE_LIMIT takes the mutex of the cache and returns
\* the cached response, or issues the fetch with the mutex held.
UpcheckRefresh(t, w, expired) ==
  /\ At(t, CachePc(w)) /\ UpcheckCacheAction(probe[t]) = "Update"
  /\ response_lock[w].holder = NoTask
  /\ IF ResponseHit(response_cache, w, Some("limit"), expired)
       THEN /\ AfterCacheCall(t, w, TRUE)
            /\ UNCHANGED response_lock
       ELSE /\ response_lock' =
                 [response_lock EXCEPT ![w] = [holder |-> t, since |-> auth_failures]]
            /\ Goto(t, FetchPc(w))
            /\ UNCHANGED <<calls, auth_cleared>>
  /\ UNCHANGED <<watchers, health, forkchoice, payloads, response_cache, auth_failures, arg, probe,
                 mark, latest, found, outcome, result, spawns, pending_upchecks, started>>

\* The fetch returns: a response populates the cache, an error leaves it
\* as it was; the mutex is released.
UpcheckFetchReturn(t, w, ok) ==
  /\ At(t, FetchPc(w))
  /\ response_cache' =
       IF ok THEN ResponseStore(response_cache, w, response_lock[w].since)
       ELSE response_cache
  /\ response_lock' = [response_lock EXCEPT ![w] = NoFetch]
  /\ AfterCacheCall(t, w, ok)
  /\ UNCHANGED <<watchers, health, forkchoice, payloads, auth_failures, arg, probe,
                 mark, latest, found, outcome, result, spawns, pending_upchecks, started>>

\* Variant: clearing the cached responses also empties the payload-id cache.
UpcheckClear_AlsoPayloads(t, w) ==
  /\ At(t, CachePc(w)) /\ UpcheckCacheAction(probe[t]) = "Clear"
  /\ response_lock[w].holder = NoTask
  /\ response_cache' = ResponseClear(response_cache, w)
  /\ payload_id_cache' = <<>>
  /\ AfterCacheCall(t, w, TRUE)
  /\ UNCHANGED <<watchers, health, forkchoice, cache_lock, used, use_count, response_lock,
                 auth_failures, arg, probe, mark, latest, found, outcome, result, spawns,
                 pending_upchecks, started>>

\* ResponseCacheAction::Clear: the cache is emptied under its mutex.
UpcheckClear(t, w) ==
  /\ At(t, CachePc(w)) /\ UpcheckCacheAction(probe[t]) = "Clear"
  /\ response_lock[w].holder = NoTask
  /\ response_cache' = ResponseClear(response_cache, w)
  /\ AfterCacheCall(t, w, TRUE)
  /\ UNCHANGED <<watchers, health, forkchoice, payloads, response_lock, auth_failures, arg, probe,
                 mark, latest, found, outcome, result, spawns, pending_upchecks, started>>

\* ------------------------- get_engine_capabilities, get_engine_version
\* A caller invokes get_engine_capabilities(age_limit) or
\* get_engine_version(age_limit), which delegate to the call surface.
GetEngineCall(t, w, age_limit) ==
  /\ FreeSlot(t) /\ started < MaxOps
  /\ started' = started + 1
  /\ arg' = [arg EXCEPT ![t] = <<w, age_limit>>]
  /\ mark' = [mark EXCEPT ![t] = auth_cleared]
  /\ calls' = [calls EXCEPT ![t] =
        <<<<(IF w = "capabilities" THEN "get_engine_capabilities" ELSE "get_engine_version"),
            age_limit>>>>]
  /\ Goto(t, "ge_lock")
  /\ UNCHANGED <<shared, probe, latest, found, outcome, result, spawns, pending_upchecks>>

\* The mutex of the cache is taken; the cached response is returned, or
\* the fetch is issued with the mutex held.
GetEngineLookup(t, expired) ==
  /\ At(t, "ge_lock") /\ response_lock[arg[t][1]].holder = NoTask
  /\ arg[t][2] = None => ~expired
  /\ IF ResponseHit(response_cache, arg[t][1], arg[t][2], expired)
       THEN /\ result' = [result EXCEPT ![t] = <<"Ok", response_cache[arg[t][1]][1]>>]
            /\ Goto(t, "ge_done")
            /\ UNCHANGED response_lock
       ELSE /\ response_lock' =
                 [response_lock EXCEPT ![arg[t][1]] = [holder |-> t, since |-> auth_failures]]
            /\ Goto(t, "ge_fetch")
            /\ UNCHANGED result
  /\ UNCHANGED <<watchers, health, forkchoice, payloads, response_cache, failures, arg, probe,
                 mark, latest, found, outcome, calls, spawns, pending_upchecks, started>>

\* The fetch returns: the response populates the cache and is returned,
\* an error is returned as it is; the mutex is released.
GetEngineFetchReturn(t, ok) ==
  /\ At(t, "ge_fetch")
  /\ response_cache' =
       IF ok THEN ResponseStore(response_cache, arg[t][1], response_lock[arg[t][1]].since)
       ELSE response_cache
  /\ response_lock' = [response_lock EXCEPT ![arg[t][1]] = NoFetch]
  /\ result' = [result EXCEPT ![t] =
       IF ok THEN <<"Ok", response_lock[arg[t][1]].since>> ELSE <<"Err", "Other">>]
  /\ Goto(t, "ge_done")
  /\ UNCHANGED <<watchers, health, forkchoice, payloads, failures, arg, probe,
                 mark, latest, found, outcome, calls, spawns, pending_upchecks, started>>

\* -------------------------------------------------------------- request
\* request(func): func(self) is called and awaited.
RequestCall(t) ==
  /\ FreeSlot(t) /\ started < MaxOps
  /\ started' = started + 1
  /\ Goto(t, "rq_op")
  /\ calls' = [calls EXCEPT ![t] = <<<<"op">>>>]
  /\ UNCHANGED <<shared, arg, probe, mark, latest, found, outcome, result, spawns, pending_upchecks>>

\* Variant: the Err arm marks the engine offline itself.
RequestOpReturn_MarksOffline(t, r) ==
  /\ At(t, "rq_op")
  /\ outcome' = [outcome EXCEPT ![t] = r]
  /\ IF r[1] = "Err"
       THEN /\ pending_upchecks' = pending_upchecks + 1
            /\ spawns' = [spawns EXCEPT ![t] = @ + 1]
            /\ result' = [result EXCEPT ![t] = RequestResult(r)]
            /\ state' = "Offline"
            /\ Goto(t, "rq_done")
       ELSE /\ Goto(t, "rq_rlock")
            /\ UNCHANGED <<pending_upchecks, spawns, result, state>>
  /\ UNCHANGED <<notifier, state_lock, forkchoice, payloads, responses, failures,
                 watchers, arg, probe, mark, latest, found, calls, started>>

\* func's future completes.  Err arm: spawn an upcheck and return the
\* wrapped error.  Ok arm: ask for the read lock.
RequestOpReturn(t, r) ==
  /\ At(t, "rq_op")
  /\ outcome' = [outcome EXCEPT ![t] = r]
  /\ IF r[1] = "Err"
       THEN /\ pending_upchecks' = pending_upchecks + 1
            /\ spawns' = [spawns EXCEPT ![t] = @ + 1]
            /\ result' = [result EXCEPT ![t] = RequestResult(r)]
            /\ Goto(t, "rq_done")
       ELSE /\ Goto(t, "rq_rlock")
            /\ UNCHANGED <<pending_upchecks, spawns, result>>
  /\ UNCHANGED <<shared, arg, probe, mark, latest, found, calls, started>>

\* `let state = **self.state.read().await`: the read guard is acquired,
\* the state copied and the guard dropped; an upcheck is spawned unless
\* the state is Synced, and Ok(result) is returned.
RequestRead(t) ==
  /\ At(t, "rq_rlock") /\ CanRead(state_lock)
  /\ found' = [found EXCEPT ![t] = state]
  /\ IF SpawnAfterSuccess(state)
       THEN /\ pending_upchecks' = pending_upchecks + 1
            /\ spawns' = [spawns EXCEPT ![t] = @ + 1]
       ELSE UNCHANGED <<pending_upchecks, spawns>>
  /\ result' = [result EXCEPT ![t] = RequestResult(outcome[t])]
  /\ Goto(t, "rq_done")
  /\ UNCHANGED <<shared, arg, probe, mark, latest, outcome, calls, started>>

\* ----------------------------------------- is_synced, is_offline, watch_state
\* A caller invokes one of the operations that read the state.
ReaderCall(t, op) ==
  /\ FreeSlot(t) /\ started < MaxOps
  /\ started' = started + 1
  /\ arg' = [arg EXCEPT ![t] = <<op>>]
  /\ Goto(t, "rd_rlock")
  /\ UNCHANGED <<shared, probe, mark, latest, found, outcome, result, calls, spawns, pending_upchecks>>

\* `self.state.read().await`, the read under the guard, the guard dropped.
ReaderRead(t) ==
  /\ At(t, "rd_rlock") /\ CanRead(state_lock)
  /\ result' = [result EXCEPT ![t] = ReaderResult(arg[t][1], state, notifier)]
  /\ watchers' = IF arg[t][1] = "watch_state"
                   THEN Append(watchers, Subscribe(notifier)) ELSE watchers
  /\ Goto(t, "rd_done")
  /\ UNCHANGED <<health, forkchoice, payloads, responses, failures, arg, probe, mark, latest, found, outcome, calls, spawns,
                 pending_upchecks, started>>

\* The holder of the i-th stream polls it and gets an item.  The channel
\* has its own lock; the lock of the state is not involved.
WatcherNext(i) ==
  /\ i \in 1..Len(watchers) /\ \A u \in Tasks : pc[u] \notin DonePcs
  /\ HasItem(watchers[i], notifier)
  /\ watchers' = [watchers EXCEPT ![i] = Yield(@, notifier)]
  /\ UNCHANGED <<health, forkchoice, payloads, responses, failures, mark, pc, arg,
                 probe, found, latest, outcome, result, calls, spawns,
                 pending_upchecks, started>>

\* ------------------------------------------- set_latest_forkchoice_state
SetLatestCall(t, fs) ==
  /\ FreeSlot(t) /\ started < MaxOps
  /\ started' = started + 1
  /\ arg' = [arg EXCEPT ![t] = <<fs>>]
  /\ Goto(t, "sf_wlock")
  /\ UNCHANGED <<shared, probe, mark, latest, found, outcome, result, calls, spawns, pending_upchecks>>

\* Variant: the state is read (self.state.read()) before the write guard
\* of the slot is dropped.
SetLatestWrite_ThenReadState(t) ==
  /\ At(t, "sf_wlock") /\ CanWrite(fcs_lock)
  /\ fcs_lock' = [fcs_lock EXCEPT !.writer = t]
  /\ latest_forkchoice_state' = Some(arg[t][1])
  /\ Goto(t, "rd_rlock")
  /\ UNCHANGED <<watchers, health, payloads, responses, failures, arg, probe, mark, latest,
                 found, outcome, result, calls, spawns, pending_upchecks, started>>

\* `*self.latest_forkchoice_state.write().await = Some(state)`: the write
\* guard is acquired, the slot overwritten and the guard dropped.
SetLatestWrite(t) ==
  /\ At(t, "sf_wlock") /\ CanWrite(fcs_lock)
  /\ latest_forkchoice_state' = Some(arg[t][1])
  /\ Goto(t, "sf_done")
  /\ UNCHANGED <<watchers, health, fcs_lock, payloads, responses, failures, arg, probe, mark, latest,
                 found, outcome, result, calls, spawns, pending_upchecks, started>>

\* --------------------------------------------- notify_forkchoice_updated
\* api.forkchoice_updated(forkchoice_state, payload_attributes) is called.
NotifyCall(t, fs, pa) ==
  /\ FreeSlot(t) /\ started < MaxOps
  /\ started' = started + 1
  /\ arg' = [arg EXCEPT ![t] = <<fs, pa>>]
  /\ calls' = [calls EXCEPT ![t] = <<<<"forkchoice_updated", fs, pa>>>>]
  /\ Goto(t, "nf_call")
  /\ UNCHANGED <<shared, probe, mark, latest, found, outcome, result, spawns, pending_upchecks>>

\* The call returns: `?` returns an error at once; a payload id with
\* attributes leads to the cache; anything else returns the response.
NotifyReturn(t, r) ==
  /\ At(t, "nf_call")
  /\ outcome' = [outcome EXCEPT ![t] = r]
  /\ IF NotifyCacheKey(arg[t][1], arg[t][2], r) # None
       THEN /\ Goto(t, "nf_lock")
            /\ UNCHANGED result
       ELSE /\ Goto(t, "nf_done")
            /\ result' = [result EXCEPT ![t] = r]
  /\ UNCHANGED <<shared, arg, probe, mark, latest, found, calls, spawns, pending_upchecks, started>>

\* `self.payload_id_cache.lock().await.put(key, payload_id)`: the mutex is
\* acquired, the entry stored and the guard dropped; Ok(response) is
\* returned.
NotifyPut(t) ==
  /\ At(t, "nf_lock") /\ cache_lock = NoTask
  /\ payload_id_cache' =
       LruPut(payload_id_cache,
              NotifyCacheKey(arg[t][1], arg[t][2], outcome[t])[1], outcome[t][2][1])
  /\ used' = Used(used, <<arg[t][1].head_block_hash, arg[t][2][1]>>,
                  use_count + 1, outcome[t][2][1])
  /\ use_count' = use_count + 1
  /\ result' = [result EXCEPT ![t] = outcome[t]]
  /\ Goto(t, "nf_done")
  /\ UNCHANGED <<watchers, health, forkchoice, cache_lock, responses, failures, arg, probe, mark, latest,
                 found, outcome, calls, spawns, pending_upchecks, started>>

\* -------------------------------------------------------- get_payload_id
GetPayloadIdCall(t, h, pa) ==
  /\ FreeSlot(t) /\ started < MaxOps
  /\ started' = started + 1
  /\ arg' = [arg EXCEPT ![t] = <<h, pa>>]
  /\ Goto(t, "gp_lock")
  /\ UNCHANGED <<shared, probe, mark, latest, found, outcome, result, calls, spawns, pending_upchecks>>

\* `self.payload_id_cache.lock().await.get(&key).cloned()`: the mutex is
\* acquired, the entry looked up (and marked used) and the guard dropped.
GetPayloadIdGet(t) ==
  /\ At(t, "gp_lock") /\ cache_lock = NoTask
  /\ result' = [result EXCEPT ![t] =
       LruGet(payload_id_cache, PayloadIdCacheKey(arg[t][1], arg[t][2]))]
  /\ payload_id_cache' = LruTouch(payload_id_cache, PayloadIdCacheKey(arg[t][1], arg[t][2]))
  /\ IF LruGet(payload_id_cache, PayloadIdCacheKey(arg[t][1], arg[t][2])) # None
         /\ <<arg[t][1], arg[t][2]>> \in DOMAIN used
       THEN /\ used' = Used(used, <<arg[t][1], arg[t][2]>>, use_count + 1,
                            used[<<arg[t][1], arg[t][2]>>].id)
            /\ use_count' = use_count + 1
       ELSE UNCHANGED <<used, use_count>>
  /\ Goto(t, "gp_done")
  /\ UNCHANGED <<watchers, health, forkchoice, cache_lock, responses, failures, arg, probe, mark, latest,
                 found, outcome, calls, spawns, pending_upchecks, started>>

\* ---------------------------------------------------------------- tasks
\* The operation has returned; the slot is free again.
Finish(t) ==
  /\ pc[t] \in DonePcs
  /\ Goto(t, "idle")
  /\ arg' = [arg EXCEPT ![t] = None]
  /\ probe' = [probe EXCEPT ![t] = Unset]
  /\ mark' = [mark EXCEPT ![t] = 0]
  /\ found' = [found EXCEPT ![t] = Unset]
  /\ latest' = [latest EXCEPT ![t] = NotRead]
  /\ outcome' = [outcome EXCEPT ![t] = None]
  /\ result' = [result EXCEPT ![t] = None]
  /\ calls' = [calls EXCEPT ![t] = <<>>]
  /\ spawns' = [spawns EXCEPT ![t] = 0]
  /\ UNCHANGED <<shared, pending_upchecks, started>>

Next ==
  \/ \E t \in Tasks : UpcheckCall(t)
  \/ \E t \in Tasks : UpcheckSpawned(t)
  \/ \E t \in Tasks : \E p \in ProbeResults : ProbeReturn(t, p)
  \/ \E t \in Tasks : UpcheckAcquireWrite(t)
  \/ \E t \in Tasks : SendLatestRead(t)
  \/ \E t \in Tasks : \E r \in FcuResults : SendLatestReturn(t, r)
  \/ \E t \in Tasks : UpdateSet(t)
  \/ \E t \in Tasks : UpdateSend(t)
  \/ \E t \in Tasks : \E w \in Responses : \E expired \in BOOLEAN : UpcheckRefresh(t, w, expired)
  \/ \E t \in Tasks : \E w \in Responses : \E ok \in BOOLEAN : UpcheckFetchReturn(t, w, ok)
  \/ \E t \in Tasks : \E w \in Responses : UpcheckClear(t, w)
  \/ \E t \in Tasks : RequestCall(t)
  \/ \E t \in Tasks : \E r \in OpResults : RequestOpReturn(t, r)
  \/ \E t \in Tasks : RequestRead(t)
  \/ \E t \in Tasks : \E op \in ReaderOps : ReaderCall(t, op)
  \/ \E t \in Tasks : ReaderRead(t)
  \/ \E t \in Tasks : \E fs \in ForkchoiceStates : SetLatestCall(t, fs)
  \/ \E t \in Tasks : SetLatestWrite(t)
  \/ \E t \in Tasks : \E fs \in ForkchoiceStates :
        \E pa \in {Some(a) : a \in Attrs} \cup {None} : NotifyCall(t, fs, pa)
  \/ \E t \in Tasks : \E r \in FcuResults : NotifyReturn(t, r)
  \/ \E t \in Tasks : NotifyPut(t)
  \/ \E t \in Tasks : \E h \in Hashes : \E a \in Attrs : GetPayloadIdCall(t, h, a)
  \/ \E t \in Tasks : GetPayloadIdGet(t)
  \/ \E t \in Tasks : \E w \in Responses : \E al \in AgeLimits : GetEngineCall(t, w, al)
  \/ \E t \in Tasks : \E expired \in BOOLEAN : GetEngineLookup(t, expired)
  \/ \E t \in Tasks : \E ok \in BOOLEAN : GetEngineFetchReturn(t, ok)
  \/ \E i \in 1..MaxOps : WatcherNext(i)
  \/ \E t \in Tasks : Finish(t)

\* The operations on the health state and on the forkchoice slot alone.
\* notify_forkchoice_updated and get_payload_id touch only the payload-id
\* cache, its mutex and their own locals, so leaving them out changes
\* nothing these operations can read.
NextHealth ==
  \/ \E t \in Tasks : UpcheckCall(t)
  \/ \E t \in Tasks : UpcheckSpawned(t)
  \/ \E t \in Tasks : \E p \in ProbeResults : ProbeReturn(t, p)
  \/ \E t \in Tasks : UpcheckAcquireWrite(t)
  \/ \E t \in Tasks : SendLatestRead(t)
  \/ \E t \in Tasks : \E r \in FcuResults : SendLatestReturn(t, r)
  \/ \E t \in Tasks : UpdateSet(t)
  \/ \E t \in Tasks : UpdateSend(t)
  \/ \E t \in Tasks : \E w \in Responses : \E expired \in BOOLEAN : UpcheckRefresh(t, w, expired)
  \/ \E t \in Tasks : \E w \in Responses : \E ok \in BOOLEAN : UpcheckFetchReturn(t, w, ok)
  \/ \E t \in Tasks : \E w \in Responses : UpcheckClear(t, w)
  \/ \E t \in Tasks : RequestCall(t)
  \/ \E t \in Tasks : \E r \in OpResults : RequestOpReturn(t, r)
  \/ \E t \in Tasks : RequestRead(t)
  \/ \E t \in Tasks : \E op \in ReaderOps : ReaderCall(t, op)
  \/ \E t \in Tasks : ReaderRead(t)
  \/ \E t \in Tasks : \E fs \in ForkchoiceStates : SetLatestCall(t, fs)
  \/ \E t \in Tasks : SetLatestWrite(t)
  \/ \E t \in Tasks : Finish(t)

SpecHealth == Init /\ [][NextHealth]_vars

\* upcheck() alone, called by any number of tasks.
NextUpcheck ==
  \/ \E t \in Tasks : UpcheckCall(t)
  \/ \E t \in Tasks : \E p \in ProbeResults : ProbeReturn(t, p)
  \/ \E t \in Tasks : UpcheckAcquireWrite(t)
  \/ \E t \in Tasks : SendLatestRead(t)
  \/ \E t \in Tasks : UpdateSet(t)
  \/ \E t \in Tasks : UpdateSend(t)
  \/ \E t \in Tasks : \E w \in Responses : \E expired \in BOOLEAN : UpcheckRefresh(t, w, expired)
  \/ \E t \in Tasks : \E w \in Responses : \E ok \in BOOLEAN : UpcheckFetchReturn(t, w, ok)
  \/ \E t \in Tasks : \E w \in Responses : UpcheckClear(t, w)
  \/ \E t \in Tasks : Finish(t)

SpecUpcheck == Init /\ [][NextUpcheck]_vars

\* upcheck() and the two operations that read the call surface's caches.
NextResponses ==
  \/ NextUpcheck
  \/ \E t \in Tasks : \E w \in Responses : \E al \in AgeLimits : GetEngineCall(t, w, al)
  \/ \E t \in Tasks : \E expired \in BOOLEAN : GetEngineLookup(t, expired)
  \/ \E t \in Tasks : \E ok \in BOOLEAN : GetEngineFetchReturn(t, ok)

SpecResponses == Init /\ [][NextResponses]_vars

\* notify_forkchoice_updated and get_payload_id alone.
NextPayloads ==
  \/ \E t \in Tasks : \E fs \in ForkchoiceStates :
        \E pa \in {Some(a) : a \in Attrs} \cup {None} : NotifyCall(t, fs, pa)
  \/ \E t \in Tasks : \E r \in FcuResults : NotifyReturn(t, r)
  \/ \E t \in Tasks : NotifyPut(t)
  \/ \E t \in Tasks : \E h \in Hashes : \E a \in Attrs : GetPayloadIdCall(t, h, a)
  \/ \E t \in Tasks : GetPayloadIdGet(t)
  \/ \E t \in Tasks : Finish(t)

SpecPayloads == Init /\ [][NextPayloads]_vars

\* The coordinator after PAYLOAD_ID_LRU_CACHE_SIZE calls of
\* notify_forkchoice_updated with the heads 1, 2, ... in this order, each
\* with the attributes 1 and answered with the payload id 1: the cache is
\* full, the head put first is the least recently used.
InitFull ==
  /\ state = StateDefault.state
  /\ notifier = StateDefault.notifier
  /\ state_lock = FreeLock
  /\ latest_forkchoice_state = None
  /\ fcs_lock = FreeLock
  /\ payload_id_cache =
       [i \in 1..PAYLOAD_ID_LRU_CACHE_SIZE |->
          <<PayloadIdCacheKey(PAYLOAD_ID_LRU_CACHE_SIZE + 1 - i, 1), 1>>]
  /\ cache_lock = NoTask
  /\ used = [k \in (1..PAYLOAD_ID_LRU_CACHE_SIZE) \X {1} |-> [at |-> k[1], id |-> 1]]
  /\ use_count = PAYLOAD_ID_LRU_CACHE_SIZE
  /\ response_cache = [w \in Responses |-> None]
  /\ response_lock = [w \in Responses |-> NoFetch]
  /\ auth_failures = 0
  /\ auth_cleared = 0
  /\ watchers = <<>>
  /\ mark = [t \in Tasks |-> 0]
  /\ pc = [t \in Tasks |-> "idle"]
  /\ arg = [t \in Tasks |-> None]
  /\ probe = [t \in Tasks |-> Unset]
  /\ found = [t \in Tasks |-> Unset]
  /\ latest = [t \in Tasks |-> NotRead]
  /\ outcome = [t \in Tasks |-> None]
  /\ result = [t \in Tasks |-> None]
  /\ calls = [t \in Tasks |-> <<>>]
  /\ spawns = [t \in Tasks |-> 0]
  /\ pending_upchecks = 0
  /\ started = 0

\* The heads the calls on the full cache use: the two least recently
\* used ones, and heads that are not in the cache.
FullCacheHeads ==
  {1, 2} \cup (PAYLOAD_ID_LRU_CACHE_SIZE + 1 .. PAYLOAD_ID_LRU_CACHE_SIZE + MaxHash)

\* notify_forkchoice_updated and get_payload_id on the full cache, with
\* the attributes the cache was filled with and every call answered with
\* the payload id 1.
NextFullCache ==
  \/ \E t \in Tasks : \E h \in FullCacheHeads :
        NotifyCall(t, [head_block_hash |-> h, safe_block_hash |-> ZeroHash,
                       finalized_block_hash |-> ZeroHash], Some(1))
  \/ \E t \in Tasks : NotifyReturn(t, <<"Ok", Some(1)>>)
  \/ \E t \in Tasks : NotifyPut(t)
  \/ \E t \in Tasks : \E h \in FullCacheHeads : GetPayloadIdCall(t, h, 1)
  \/ \E t \in Tasks : GetPayloadIdGet(t)
  \/ \E t \in Tasks : Finish(t)

SpecFullCache == InitFull /\ [][NextFullCache]_vars

\* upcheck() and the watchers of the state.
NextWatch ==
  \/ NextUpcheck
  \/ \E t \in Tasks : \E op \in ReaderOps : ReaderCall(t, op)
  \/ \E t \in Tasks : ReaderRead(t)
  \/ \E i \in 1..MaxOps : WatcherNext(i)

SpecWatch == Init /\ [][NextWatch]_vars

\* upcheck() and set_latest_forkchoice_state(): the re-issue of the
\* latest forkchoice state.
NextReissue ==
  \/ NextUpcheck
  \/ \E t \in Tasks : \E r \in FcuResults : SendLatestReturn(t, r)
  \/ \E t \in Tasks : \E fs \in ForkchoiceStates : SetLatestCall(t, fs)
  \/ \E t \in Tasks : SetLatestWrite(t)

SpecReissue == Init /\ [][NextReissue]_vars

\* upcheck() with its re-issue, and those who observe the health:
\* is_synced(), is_offline() and the watchers.
NextObserve ==
  \/ NextWatch
  \/ \E t \in Tasks : \E r \in FcuResults : SendLatestReturn(t, r)
  \/ \E t \in Tasks : \E fs \in ForkchoiceStates : SetLatestCall(t, fs)
  \/ \E t \in Tasks : SetLatestWrite(t)

SpecObserve == Init /\ [][NextObserve]_vars

\* The operations that only read, on the coordinator as constructed.
NextFresh ==
  \/ \E t \in Tasks : \E op \in ReaderOps : ReaderCall(t, op)
  \/ \E t \in Tasks : ReaderRead(t)
  \/ \E i \in 1..MaxOps : WatcherNext(i)
  \/ \E t \in Tasks : \E h \in Hashes : \E a \in Attrs : GetPayloadIdCall(t, h, a)
  \/ \E t \in Tasks : GetPayloadIdGet(t)
  \/ \E t \in Tasks : Finish(t)

SpecFresh == Init /\ [][NextFresh]_vars

\* The coordinator as constructed, with one watcher registered on it.
InitWatched ==
  /\ Init!1 /\ Init!2 /\ Init!3 /\ Init!4 /\ Init!5 /\ Init!6 /\ Init!7 /\ Init!8
  /\ Init!9 /\ Init!10 /\ Init!11 /\ Init!12 /\ Init!13
  /\ watchers = <<Subscribe(StateDefault.notifier)>>
  /\ Init!15 /\ Init!16 /\ Init!17 /\ Init!18 /\ Init!19 /\ Init!20 /\ Init!21
  /\ Init!22 /\ Init!23 /\ Init!24 /\ Init!25 /\ Init!26

\* Requests whose op succeeds, on an endpoint whose probe succeeds, with
\* the watcher and set_latest_forkchoice_state().  Operations are called
\* only while the upchecks still to be spawned can be started as well.
Reserved ==
  started + pending_upchecks + Cardinality({t \in Tasks : pc[t] \in {"rq_op", "rq_rlock"}})

RecoveryStep(t) ==
  \/ \E v \in 1..MaxResult : RequestOpReturn(t, <<"Ok", v>>)
  \/ RequestRead(t)
  \/ UpcheckSpawned(t)
  \/ ProbeReturn(t, "Ok")
  \/ UpcheckAcquireWrite(t)
  \/ SendLatestRead(t)
  \/ \E r \in FcuResults : SendLatestReturn(t, r)
  \/ UpdateSet(t)
  \/ UpdateSend(t)
  \/ \E w \in Responses : \E expired \in BOOLEAN : UpcheckRefresh(t, w, expired)
  \/ \E w \in Responses : \E ok \in BOOLEAN : UpcheckFetchReturn(t, w, ok)
  \/ SetLatestWrite(t)
  \/ Finish(t)

NextRecovery ==
  \/ \E t \in Tasks : Reserved + 2 <= MaxOps /\ RequestCall(t)
  \/ \E t \in Tasks : \E fs \in ForkchoiceStates :
        Reserved + 1 <= MaxOps /\ SetLatestCall(t, fs)
  \/ \E t \in Tasks : RecoveryStep(t)
  \/ \E i \in 1..MaxOps : WatcherNext(i)

\* The executor runs every task it was given, the locks are fair, every
\* endpoint call returns and the holder of a stream keeps polling it.
\* Every step of a task moves its pc and every poll changes the watcher.
SpecRecovery ==
  /\ InitWatched /\ [][NextRecovery]_vars
  /\ \A t \in Tasks : WF_pc(RecoveryStep(t))
  /\ \A i \in 1..MaxOps : WF_watchers(WatcherNext(i))

\* Every operation of the coordinator.
Spec == Init /\ [][Next]_vars

\* ============================================================== claims
\* Task t is suspended on a call of the endpoint call surface.
AwaitingEndpoint(t) ==
  pc[t] \in {"up_probe", "up_fcu", "up_cache1", "up_cache2", "up_fetch1", "up_fetch2",
            "rq_op", "nf_call", "ge_lock", "ge_fetch"}

HoldsStateLock(t) == state_lock.writer = t \/ t \in state_lock.readers

\* The number of forkchoice_updated calls among cs.
RECURSIVE NumFcu(_)
NumFcu(cs) ==
  IF cs = <<>> THEN 0
  ELSE (IF cs[1][1] = "forkchoice_updated" THEN 1 ELSE 0) + NumFcu(Tail(cs))

\* The locks task t holds, and the lock it is waiting for.
Holds(t) ==
  (IF HoldsStateLock(t) THEN {"state"} ELSE {})
  \cup (IF fcs_lock.writer = t \/ t \in fcs_lock.readers THEN {"fcs"} ELSE {})
  \cup (IF cache_lock = t THEN {"cache"} ELSE {})
  \cup {w \in Responses : response_lock[w].holder = t}

Wants(t) ==
  CASE pc[t] \in {"up_wlock", "rq_rlock", "rd_rlock"} -> {"state"}
    [] pc[t] \in {"up_fcs_rlock", "sf_wlock"} -> {"fcs"}
    [] pc[t] \in {"nf_lock", "gp_lock"} -> {"cache"}
    [] pc[t] = "up_cache1" -> {"capabilities"}
    [] pc[t] = "up_cache2" -> {"version"}
    [] pc[t] = "ge_lock" -> {arg[t][1]}
    [] OTHER -> {}

\* The tasks whose hold on its lock keeps t from acquiring the lock it wants.
Blockers(t) ==
  CASE pc[t] = "up_wlock" -> ({state_lock.writer} \cup state_lock.readers) \ {NoTask}
    [] pc[t] \in {"rq_rlock", "rd_rlock"} -> {state_lock.writer} \ {NoTask}
    [] pc[t] = "up_fcs_rlock" -> {fcs_lock.writer} \ {NoTask}
    [] pc[t] = "sf_wlock" -> ({fcs_lock.writer} \cup fcs_lock.readers) \ {NoTask}
    [] pc[t] \in {"nf_lock", "gp_lock"} -> {cache_lock} \ {NoTask}
    [] pc[t] = "up_cache1" -> {response_lock["capabilities"].holder} \ {NoTask}
    [] pc[t] = "up_cache2" -> {response_lock["version"].holder} \ {NoTask}
    [] pc[t] = "ge_lock" -> {response_lock[arg[t][1]].holder} \ {NoTask}
    [] OTHER -> {}

\* The tasks that can still move: those with a step of their own (a
\* pending endpoint call returns), and those blocked only by such tasks.
RECURSIVE CanMove(_, _)
CanMove(S, n) ==
  IF n = 0 THEN S
  ELSE CanMove(S \cup {t \in Tasks : pc[t] # "idle" /\ Blockers(t) \subseteq S}, n - 1)

Movable == CanMove({t \in Tasks : pc[t] # "idle" /\ Blockers(t) = {}}, NumTasks)

LockRank(l) ==
  CASE l = "state" -> 1 [] l = "fcs" -> 2 [] l = "cache" -> 3
    [] l = "capabilities" -> 4 [] OTHER -> 5

\* C1: a task suspended on an endpoint call (probe, forkchoice_updated
\* including the re-issue, capability/version fetch or clear) holds
\* neither side of the health lock.
C1_NoHealthLockAcrossAwait ==
  \A t \in Tasks : AwaitingEndpoint(t) => ~HoldsStateLock(t)

\* C2: whatever the prior internal health, the health an upcheck has
\* written is fixed by its probe outcome: success -> Synced, "is syncing"
\* -> Syncing, authentication error -> AuthFailed, other error -> Offline.
C2_HealthWrittenByProbe ==
  \A t \in Tasks : pc[t] = "up_send" =>
    /\ probe[t] = "Ok" => state = "Synced"
    /\ probe[t] = "IsSyncing" => state = "Syncing"
    /\ probe[t] = "Auth" => state = "AuthFailed"
    /\ probe[t] = "Other" => state = "Offline"

\* C2 witness: an upcheck that found Synced has written AuthFailed.
C2_Witness ==
  \E t \in Tasks : pc[t] = "up_send" /\ found[t] = "Synced" /\ probe[t] = "Auth"
                   /\ state = "AuthFailed"

\* C3: an update notifies the watchers (the channel's version advances,
\* by one) if and only if the projection of the new internal health
\* differs from the value published before; no other step notifies.
C3_NotifyIffProjectionChanges ==
  [][LET new_projected == IF state \in {"Synced", "Syncing"} THEN "Online" ELSE "Offline"
         updating == \E t \in Tasks : pc[t] = "up_send" /\ pc'[t] # "up_send"
     IN  IF updating /\ new_projected # notifier.value
           THEN notifier'.version = notifier.version + 1 /\ notifier'.value = new_projected
           ELSE notifier'.version = notifier.version]_vars

\* C3 witness: starting Offline, exactly one notification has been emitted
\* and an update from Syncing to Synced has just been published silently.
C3_Witness ==
  \E t \in Tasks : pc[t] = "up_cache1" /\ found[t] = "Syncing" /\ probe[t] = "Ok"
                   /\ state = "Synced" /\ notifier = [value |-> "Online", version |-> 1]

\* C4: whenever the health lock is not write-held, the value stored in
\* the channel is the projection of the internal health.
C4_ChannelIsProjection ==
  state_lock.writer = NoTask =>
    (notifier.value = "Online" <=> state \in {"Synced", "Syncing"})

\* C4 witness: after several updates, two of them published, the lock is
\* free and the health is Syncing.
C4_Witness ==
  state_lock.writer = NoTask /\ notifier.version >= 2 /\ state = "Syncing"

\* C5: a request that has returned spawned exactly one upcheck if op
\* failed, exactly one if op succeeded and the health read afterwards was
\* not Synced, and none if op succeeded and that health was Synced.
C5_SpawnCount ==
  \A t \in Tasks : pc[t] = "rq_done" =>
    spawns[t] = (IF outcome[t][1] = "Err" THEN 1
                 ELSE IF found[t] # "Synced" THEN 1 ELSE 0)

\* C5 witness: a successful request read Synced and spawned nothing.
C5_Witness ==
  \E t \in Tasks : pc[t] = "rq_done" /\ outcome[t][1] = "Ok" /\ found[t] = "Synced"
                   /\ spawns[t] = 0

\* C6: a request whose op has completed never waits for an upcheck that
\* is itself waiting for the endpoint.
C6_RequestNeverWaitsOnUpcheck ==
  \A r \in Tasks : pc[r] = "rq_rlock" =>
    ~ \E u \in Tasks : state_lock.writer = u /\ AwaitingEndpoint(u)

\* C7: a request runs op once, whatever the internal health, and returns
\* op's outcome: Ok(result), or Err(Api{error}) with op's own error; never
\* the Offline, Auth or BuilderApi variants.
C7_RequestReturnsOpOutcome ==
  \A t \in Tasks :
    /\ pc[t] \in {"rq_op", "rq_rlock", "rq_done"} => calls[t] = <<<<"op">>>>
    /\ pc[t] = "rq_done" =>
         /\ outcome[t][1] = "Ok" => result[t] = outcome[t]
         /\ outcome[t][1] = "Err" => result[t] = <<"Err", <<"Api", outcome[t][2]>>>>

\* C7 witness: with the engine known AuthFailed, a request ran an op that
\* failed authentication and returned Err(Api{Auth}).
C7_Witness ==
  \E t \in Tasks : pc[t] = "rq_done" /\ state = "AuthFailed"
                   /\ result[t] = <<"Err", <<"Api", "Auth">>>>

\* C8: once an upcheck has passed its test of the health, it has issued
\* forkchoice_updated(stored state, None) exactly once if its probe
\* succeeded, the health it found was not Synced and the slot held a
\* state with a non-zero head; otherwise it has issued none.
C8_ForkchoiceReissue ==
  \A t \in Tasks : pc[t] \in {"up_set", "up_send", "up_cache1", "up_cache2",
                            "up_fetch1", "up_fetch2", "up_done"} =>
    IF /\ probe[t] = "Ok" /\ found[t] # "Synced"
       /\ Len(latest[t]) = 1 /\ latest[t][1].head_block_hash # ZeroHash
      THEN /\ NumFcu(calls[t]) = 1
           /\ calls[t][2] = <<"forkchoice_updated", latest[t][1], None>>
      ELSE NumFcu(calls[t]) = 0

\* C8 witness: an upcheck that found Offline has completed after
\* re-issuing the stored state with head 1.
C8_Witness ==
  \E t \in Tasks : pc[t] = "up_done" /\ found[t] = "Offline" /\ NumFcu(calls[t]) = 1
                   /\ latest[t] # None /\ latest_forkchoice_state = latest[t]

\* C9: a task with a cache-maintenance call in progress does not hold
\* the health lock.
C9_NoLockDuringCacheMaintenance ==
  \A t \in Tasks : pc[t] \in {"up_cache1", "up_cache2", "up_fetch1", "up_fetch2"} =>
    ~HoldsStateLock(t)

\* C9 witness: one upcheck is in its cache-maintenance call while another
\* task holds the write lock.
C9_Witness ==
  \E t, u \in Tasks : t # u /\ pc[t] = "up_cache1" /\ state_lock.writer = u

\* C10: locks are only ever acquired in the order health, forkchoice
\* slot, payload cache, and every task in flight can still move once the
\* pending endpoint calls return: no deadlock state is reachable.
C10_NoDeadlock ==
  /\ \A t \in Tasks : \A h \in Holds(t) : \A w \in Wants(t) : LockRank(h) < LockRank(w)
  /\ \A t \in Tasks :
       /\ pc[t] # "idle" => t \in Movable
       /\ pc[t] = "idle" => Holds(t) = {}

\* C10 witness: an upcheck holding the health write lock and
\* set_latest_forkchoice_state are both about to lock the forkchoice slot.
C10_Witness ==
  \E t, u \in Tasks : pc[t] = "up_fcs_rlock" /\ state_lock.writer = t
                      /\ pc[u] = "sf_wlock"

\* The cache-maintenance calls among cs.
CacheCalls(cs) ==
  SelectSeq(cs, LAMBDA c : c[1] \in {"get_engine_capabilities", "get_engine_version",
                                     "clear_exchange_capabilties_cache",
                                     "clear_engine_version_cache"})

\* C11: an upcheck whose probe returned an authentication error or any
\* other non-syncing error issues its first clear with the health it wrote
\* (AuthFailed resp. Offline) published as Offline, empties the
\* capabilities cache and then the version cache, and has made exactly
\* these two cache calls when it completes; an upcheck whose probe
\* succeeded or reported syncing makes no clear call and starts with the
\* refresh of the capabilities.
C11_CacheActionByProbe ==
  [][\A t \in Tasks :
       LET failed == probe[t] \in {"Auth", "Other"}
           maintenance == CacheCalls(calls'[t])
       IN  /\ (pc[t] = "up_send" /\ pc'[t] = "up_cache1" /\ failed) =>
                /\ state = (IF probe[t] = "Auth" THEN "AuthFailed" ELSE "Offline")
                /\ notifier'.value = "Offline"
                /\ maintenance = <<<<"clear_exchange_capabilties_cache">>>>
           /\ (pc[t] = "up_cache1" /\ pc'[t] # "up_cache1" /\ failed) =>
                response_cache'["capabilities"] = None
           /\ (pc[t] # "up_done" /\ pc'[t] = "up_done") =>
                IF failed
                  THEN /\ maintenance = <<<<"clear_exchange_capabilties_cache">>,
                                          <<"clear_engine_version_cache">>>>
                       /\ response_cache'["version"] = None
                  ELSE /\ maintenance[1] = <<"get_engine_capabilities", Some("limit")>>
                       /\ \A i \in 1..Len(maintenance) :
                            maintenance[i][1] \in {"get_engine_capabilities", "get_engine_version"}
    ]_vars

\* C11 witness: an upcheck whose probe failed authentication has emptied
\* the capabilities cache and is about to empty the version cache, which
\* an earlier upcheck had filled.
C11_Witness ==
  \E t \in Tasks : /\ pc[t] = "up_cache2" /\ probe[t] = "Auth"
                   /\ response_cache["capabilities"] = None
                   /\ response_cache["version"] # None

\* C12: a get_engine_capabilities(None) or get_engine_version(None) called
\* after an upcheck whose probe failed authentication has completed never
\* returns a response fetched before that failure.
C12_NoStaleResponseAfterAuthFailure ==
  \A t \in Tasks :
    (pc[t] = "ge_done" /\ arg[t][2] = None /\ result[t][1] = "Ok") =>
      result[t][2] >= mark[t]

\* C12 witness: after an authentication failure was cleared, a
\* get_engine_*(None) is answered from the cache, which a later fetch filled.
C12_Witness ==
  \E t \in Tasks : /\ pc[t] = "ge_done" /\ arg[t][2] = None /\ mark[t] >= 1
                   /\ result[t][1] = "Ok" /\ result[t][2] = mark[t]
                   /\ response_lock[arg[t][1]].holder = NoTask
                   /\ response_cache[arg[t][1]] = Some(result[t][2])

\* The <<head, attributes>> pairs the payload-id cache c has an entry for.
CachedPairs(c) ==
  {<<c[i][1].head_block_hash, c[i][1].payload_attributes>> : i \in 1..Len(c)}

\* Among the pairs in c, the one whose last use is the oldest.
LeastRecentlyUsed(c) ==
  CHOOSE k \in CachedPairs(c) : \A x \in CachedPairs(c) : used[k].at <= used[x].at

\* C13: get_payload_id issues no endpoint call, and as long as no more
\* pairs than the capacity were ever put (nothing was evicted) it returns
\* the payload id of the latest notify_forkchoice_updated that stored one
\* for the same head and attributes, and None for a head and attributes
\* for which none was stored.
C13_GetReturnsStoredPayloadId ==
  \A t \in Tasks :
    /\ pc[t] \in {"gp_lock", "gp_done"} => calls[t] = <<>>
    /\ (pc[t] = "gp_done" /\ Cardinality(DOMAIN used) <= PAYLOAD_ID_LRU_CACHE_SIZE) =>
         result[t] = (IF <<arg[t][1], arg[t][2]>> \in DOMAIN used
                        THEN Some(used[<<arg[t][1], arg[t][2]>>].id)
                        ELSE None)

\* C13 witness: get_payload_id returned None for a head that has an id
\* stored under other attributes only.
C13_Witness ==
  \E t \in Tasks : /\ pc[t] = "gp_done" /\ result[t] = None
                   /\ \E a \in Attrs : a # arg[t][2] /\ <<arg[t][1], a>> \in DOMAIN used

\* C14: the payload-id cache never holds more than
\* PAYLOAD_ID_LRU_CACHE_SIZE entries, and a put of a new pair into the
\* full cache removes exactly the pair whose last use (put, or hit of
\* get_payload_id) is the oldest.
C14_CapacityAndLruEviction ==
  /\ Len(payload_id_cache) <= PAYLOAD_ID_LRU_CACHE_SIZE
  /\ [][/\ Len(payload_id_cache') <= PAYLOAD_ID_LRU_CACHE_SIZE
        /\ \A t \in Tasks :
             LET k == <<arg[t][1].head_block_hash, arg[t][2][1]>>
             IN  (/\ pc[t] = "nf_lock" /\ pc'[t] = "nf_done"
                  /\ k \notin CachedPairs(payload_id_cache)
                  /\ Len(payload_id_cache) = PAYLOAD_ID_LRU_CACHE_SIZE) =>
                   CachedPairs(payload_id_cache') =
                     (CachedPairs(payload_id_cache)
                        \ {LeastRecentlyUsed(payload_id_cache)}) \cup {k}
       ]_vars

\* C14 witness: after get_payload_id found the pair put first, a put of a
\* new pair into the full cache has evicted the pair put second.
C14_Witness ==
  /\ Len(payload_id_cache) = PAYLOAD_ID_LRU_CACHE_SIZE
  /\ <<1, 1>> \in CachedPairs(payload_id_cache)
  /\ <<2, 1>> \notin CachedPairs(payload_id_cache)
  /\ <<PAYLOAD_ID_LRU_CACHE_SIZE + 1, 1>> \in CachedPairs(payload_id_cache)

\* send_if_modified bumps the version exactly when the published value
\* changes, so the value published at a version is known from its parity.
PublishedAt(v) == IF v % 2 = 0 THEN "Offline" ELSE "Online"

\* C16: a watcher created at any time has an item to yield at once, and
\* that first item is the value published when it is yielded (the
\* projection of the internal health whenever no update is in progress);
\* afterwards it has an item exactly when the published value has changed
\* since its last one, the item is the value published at that moment
\* (changes in between are superseded), a watcher that is up to date has
\* the published value as its last item, and a step of one watcher leaves
\* the other watchers and the channel alone.
C16_WatcherYieldsLatest ==
  /\ [](/\ notifier.value = PublishedAt(notifier.version)
        /\ state_lock.writer = NoTask => notifier.value = EngineStateFrom(state)
        /\ \A i \in 1..Len(watchers) :
             LET w == watchers[i]
             IN  /\ w.fresh => (w.items = <<>> /\ HasItem(w, notifier))
                 /\ ~w.fresh => Len(w.items) >= 1
                 /\ w.born <= w.seen /\ w.seen <= notifier.version
                 /\ Len(w.items) <= 1 + (w.seen - w.born)
                 /\ (~w.fresh /\ w.seen = notifier.version) =>
                      (/\ w.items[Len(w.items)] = notifier.value
                       /\ ~HasItem(w, notifier))
                 /\ w.seen # notifier.version => HasItem(w, notifier))
  /\ [][\A i \in 1..Len(watchers) :
         watchers'[i] # watchers[i] =>
           /\ watchers'[i].items = Append(watchers[i].items, notifier.value)
           /\ watchers'[i].seen = notifier.version
           /\ watchers[i].fresh \/ watchers[i].seen < notifier.version
           /\ notifier' = notifier /\ state' = state
           /\ Len(watchers') = Len(watchers)
           /\ \A j \in 1..Len(watchers) : j # i => watchers'[j] = watchers[j]
      ]_vars

\* Two watchers, one created before an update and one after it: the
\* first has yielded Offline and then Online, the second only Online.
C16_Witness ==
  /\ Len(watchers) = 2
  /\ watchers[1].born = 0 /\ watchers[1].items = <<"Offline", "Online">>
  /\ watchers[2].born = 1 /\ watchers[2].items = <<"Online">>

\* A watcher registered on the coordinator as constructed.
RegisteredBefore(i) == i \in 1..Len(watchers) /\ watchers[i].born = 0

\* The watcher has nothing left to yield and was delivered Online once,
\* after its initial Offline if it had polled for it.
DeliveredOneChange(i) ==
  /\ i \in 1..Len(watchers)
  /\ ~HasItem(watchers[i], notifier)
  /\ watchers[i].items \in {<<"Online">>, <<"Offline", "Online">>}

\* C15: from a coordinator that is still Offline with a watcher
\* registered, a request whose op succeeds leads, under fair scheduling
\* and a probe that succeeds, to the internal health Synced and the
\* published health Online for good, with exactly one change (to Online)
\* delivered to that watcher.
C15_RequestRecoversHealth ==
  \A i \in 1..MaxOps :
    (/\ RegisteredBefore(i) /\ state = "Offline" /\ notifier.version = 0
     /\ \E t \in Tasks : pc[t] = "rq_op")
      ~> [](/\ state = "Synced"
            /\ notifier = [value |-> "Online", version |-> 1]
            /\ DeliveredOneChange(i))

\* The request has returned, the upcheck it spawned (the only kind of
\* upcheck under SpecRecovery) has run to its end, and the watcher polled
\* before and after the change.
C15_Witness ==
  /\ RegisteredBefore(1) /\ watchers[1].items = <<"Offline", "Online">>
  /\ state = "Synced" /\ notifier = [value |-> "Online", version |-> 1]
  /\ pending_upchecks = 0 /\ started >= 2
  /\ \A t \in Tasks : pc[t] = "idle"

\* C17: the internal health changes only in the step of an upcheck that
\* writes it, and the published health only in the step of that upcheck
\* that sends it, both under the write guard of the state; every step of
\* every other operation, whatever its outcome, leaves both unchanged.
C17_HealthWrittenOnlyByUpcheck ==
  [][/\ state' # state =>
          \E t \in Tasks : /\ pc[t] = "up_set" /\ pc'[t] = "up_send"
                           /\ state_lock.writer = t
                           /\ state' = UpcheckNewState(probe[t])
     /\ notifier' # notifier =>
          \E t \in Tasks : /\ pc[t] = "up_send" /\ pc'[t] = "up_cache1"
                           /\ state_lock.writer = t
    ]_vars

\* A request whose op failed has returned its error while the health an
\* earlier upcheck wrote is still Synced and published as Online.
C17_Witness ==
  /\ state = "Synced" /\ notifier = [value |-> "Online", version |-> 1]
  /\ \E t \in Tasks : pc[t] = "rq_done" /\ outcome[t][1] = "Err"

\* The entries of the payload-id cache, without their order of use.
Entries(c) == {c[i] : i \in 1..Len(c)}

\* C18: the set of entries of the payload-id cache changes only in the
\* step of notify_forkchoice_updated that puts the payload id of a
\* successful response to a call with attributes; no step of upcheck
\* (its re-issue and both cache actions included), request,
\* set_latest_forkchoice_state or get_payload_id changes it.
C18_PayloadCacheWrittenOnlyByNotify ==
  [][Entries(payload_id_cache') # Entries(payload_id_cache) =>
       \E t \in Tasks : /\ pc[t] = "nf_lock" /\ pc'[t] = "nf_done"
                        /\ arg[t][2] # None
                        /\ outcome[t][1] = "Ok" /\ outcome[t][2] # None
    ]_vars

\* An upcheck whose re-issue was answered with a payload id has run to
\* its end, and the cache holds what an earlier notify stored, no more.
C18_Witness ==
  /\ Len(payload_id_cache) = 1
  /\ \E t \in Tasks : /\ pc[t] = "up_done" /\ NumFcu(calls[t]) = 1
                       /\ outcome[t][1] = "Ok" /\ outcome[t][2] # None

\* C19: on the coordinator as constructed, before any operation that
\* writes, the internal health is Offline and published as Offline,
\* is_offline() answers true and is_synced() false, a new watcher yields
\* Offline, the payload-id cache is empty and get_payload_id answers
\* None for every key, and no forkchoice state is stored.
C19_FreshCoordinator ==
  /\ state = "Offline"
  /\ notifier = [value |-> "Offline", version |-> 0]
  /\ payload_id_cache = <<>>
  /\ latest_forkchoice_state = None
  /\ \A t \in Tasks :
       /\ pc[t] = "rd_done" =>
            result[t] = (CASE arg[t][1] = "is_offline" -> <<TRUE>>
                           [] arg[t][1] = "is_synced" -> <<FALSE>>
                           [] OTHER -> <<"Offline", 0>>)
       /\ pc[t] = "gp_done" => result[t] = None
  /\ \A i \in 1..Len(watchers) : watchers[i].items \in {<<>>, <<"Offline">>}

\* A watcher made by watch_state() has yielded Offline, and
\* get_payload_id() has answered None.
C19_Witness ==
  /\ Len(watchers) = 1 /\ watchers[1].items = <<"Offline">>
  /\ \E t \in Tasks : pc[t] = "gp_done" /\ result[t] = None

\* The upcheck of task t made its re-issue and the endpoint failed it.
ReissueFailed(t) == NumFcu(calls[t]) >= 1 /\ outcome[t] # None /\ outcome[t][1] = "Err"

\* C20: an upcheck whose forkchoice re-issue failed at the endpoint goes
\* on as if it had succeeded: it made the re-issue once, it writes
\* Synced and publishes Online, its cache action is the refresh, and
\* it hands no result to its caller.
C20_ReissueFailureSwallowed ==
  /\ [](\A t \in Tasks : ReissueFailed(t) =>
          /\ probe[t] = "Ok" /\ NumFcu(calls[t]) = 1
          /\ result[t] = None
          /\ pc[t] \in {"up_set", "up_send", "up_cache1", "up_fetch1", "up_cache2",
                        "up_fetch2", "up_done"}
          /\ pc[t] = "up_set" => state_lock.writer = t
          /\ pc[t] = "up_send" => (state = "Synced" /\ state_lock.writer = t)
          /\ pc[t] \notin {"up_set", "up_send"} =>
               /\ CacheCalls(calls[t]) # <<>>
               /\ CacheCalls(calls[t])[1] = <<"get_engine_capabilities", Some("limit")>>)
  /\ [][\A t \in Tasks :
         (ReissueFailed(t) /\ pc[t] = "up_send" /\ pc'[t] # "up_send") =>
           (state' = "Synced" /\ notifier'.value = "Online")
      ]_vars

\* The re-issue failed and the upcheck has run to its end, the health
\* being Synced and published.
C20_Witness ==
  /\ state = "Synced" /\ notifier.value = "Online"
  /\ \E t \in Tasks : pc[t] = "up_done" /\ ReissueFailed(t)

\* The response of task t's forkchoice_updated call gives nothing to store.
NothingToStore(t, r) == r[1] = "Err" \/ r[2] = None \/ arg[t][2] = None

\* C21: when the endpoint call of notify_forkchoice_updated fails, or
\* its response has no payload id, or it has one but no attributes were
\* supplied, the operation ends at the response without touching the
\* payload-id cache; whenever the operation ends, the caller is handed
\* the endpoint's answer (the response, or the error) as it came.
C21_NotifyLeavesCacheOnNoStore ==
  [][\A t \in Tasks :
       /\ (pc[t] = "nf_call" /\ pc'[t] # "nf_call" /\ NothingToStore(t, outcome'[t])) =>
            /\ pc'[t] = "nf_done"
            /\ payload_id_cache' = payload_id_cache
       /\ (pc[t] \in {"nf_call", "nf_lock"} /\ pc'[t] = "nf_done") =>
            result'[t] = outcome'[t]
    ]_vars

\* A response with a payload id to a call without attributes has been
\* returned to the caller, the cache still holding nothing.
C21_Witness ==
  /\ payload_id_cache = <<>>
  /\ \E t \in Tasks : /\ pc[t] = "nf_done" /\ arg[t][2] = None
                       /\ outcome[t] = <<"Ok", Some(1)>> /\ result[t] = outcome[t]

\* C22: a call of upcheck() issues the liveness probe only when the
\* internal health is not Synced at the call.
C22_ProbeOnlyWhenNotSynced ==
  [][\A t \in Tasks :
       (pc[t] = "idle" /\ pc'[t] = "up_probe" /\ calls'[t] = <<<<"upcheck">>>>) =>
         state # "Synced"
    ]_vars

\* C23: re-issue calls and transitions of the internal health into
\* Synced come in pairs made by the same upcheck.  An upcheck makes at
\* most one re-issue, and only as the holder of the write guard while the
\* health is not Synced, which then stays so until that upcheck writes
\* Synced; an upcheck whose write turns the health into Synced has made
\* one re-issue if the forkchoice state it found stored has a non-zero
\* head, and an upcheck whose write is no such transition has made none.
\* Two upchecks that both probed Ok from a non-Synced health thus make
\* one re-issue in total.
C23_OneReissuePerTransition ==
  /\ [](\A t \in Tasks :
          /\ NumFcu(calls[t]) <= 1
          /\ (NumFcu(calls[t]) = 1 /\ pc[t] \in {"up_fcu", "up_set"}) =>
               (state # "Synced" /\ state_lock.writer = t /\ probe[t] = "Ok"))
  /\ [][\A t \in Tasks :
         /\ NumFcu(calls'[t]) > NumFcu(calls[t]) =>
              /\ state # "Synced" /\ state_lock.writer = t
              /\ NeedsForkchoiceCall(latest_forkchoice_state)
         /\ (pc[t] = "up_set" /\ pc'[t] = "up_send") =>
              IF state # "Synced" /\ state' = "Synced"
                THEN NumFcu(calls[t]) = (IF NeedsForkchoiceCall(latest[t]) THEN 1 ELSE 0)
                ELSE NumFcu(calls[t]) = 0
      ]_vars

\* Two upchecks have probed Ok: one made the re-issue and wrote Synced,
\* the other found Synced under the write guard and made no re-issue.
C23_Witness ==
  \E t, u \in Tasks :
    /\ probe[t] = "Ok" /\ found[t] # "Synced" /\ NumFcu(calls[t]) = 1
    /\ pc[t] \in {"up_cache1", "up_fetch1", "up_cache2", "up_fetch2"}
    /\ probe[u] = "Ok" /\ found[u] = "Synced" /\ NumFcu(calls[u]) = 0
    /\ pc[u] = "up_send"

\* The forkchoice re-issue of task t's upcheck is awaiting its response.
ReissuePending(t) == pc[t] = "up_fcu"

\* C24: while the re-issue of an upcheck is pending, the internal health
\* is not yet Synced and the channel still holds the projection of that
\* earlier health, both stay as they are, no is_synced() is answered
\* true, and no watcher is handed a value from a newer version of the
\* channel; the upcheck writes and publishes only once its re-issue has
\* been answered or skipped.
C24_SyncedOnlyAfterReissue ==
  /\ [](\A t \in Tasks : ReissuePending(t) =>
          /\ state # "Synced" /\ state_lock.writer = t
          /\ notifier.value = EngineStateFrom(state))
  /\ [][\A t \in Tasks :
         /\ ReissuePending(t) =>
              /\ state' = state /\ notifier' = notifier
              /\ \A u \in Tasks :
                   (pc[u] = "rd_rlock" /\ pc'[u] = "rd_done") => result'[u] # <<TRUE>>
              /\ \A i \in 1..Len(watchers) : watchers'[i].seen <= notifier.version
         /\ (pc[t] = "up_set" /\ pc'[t] = "up_send" /\ state # "Synced" /\ state' = "Synced") =>
              (NumFcu(calls[t]) = 1 => outcome[t] # None)
      ]_vars

\* A re-issue is pending, the health not yet Synced, while is_synced()
\* waits for the read guard.
C24_Witness ==
  /\ \E t \in Tasks : ReissuePending(t) /\ probe[t] = "Ok" /\ state # "Synced"
  /\ \E u \in Tasks : pc[u] = "rd_rlock" /\ arg[u][1] = "is_synced"

\* The cache maintenance that belongs to an internal health.
MaintenanceFor(h) == IF h \in {"Offline", "AuthFailed"} THEN "Clear" ELSE "Update"

\* What the cache-maintenance calls of an upcheck amount to.
MaintenanceDone(cs) ==
  LET m == CacheCalls(cs)
  IN  IF m = <<<<"clear_exchange_capabilties_cache">>, <<"clear_engine_version_cache">>>>
        THEN "Clear"
      ELSE IF m # <<>> /\ \A i \in 1..Len(m) :
                            m[i][1] \in {"get_engine_capabilities", "get_engine_version"}
        THEN "Update"
      ELSE "None"

\* Task t's upcheck has completed and no other upcheck is in flight or
\* waiting to be run: its cache maintenance was the last one applied.
LastUpcheckDone(t) ==
  /\ pc[t] = "up_done" /\ pending_upchecks = 0
  /\ \A u \in Tasks \ {t} : pc[u] = "idle"

\* C25 as stated: once all upchecks have completed, the last cache
\* maintenance applied is the one that belongs to the final internal
\* health.
C25_LastMaintenanceMatchesFinalHealth ==
  \A t \in Tasks : LastUpcheckDone(t) => MaintenanceDone(calls[t]) = MaintenanceFor(state)

\* C25 as amended: once all upchecks have completed, the last cache
\* maintenance applied is the one that belongs to the health written by
\* the upcheck that completed last (which concurrent upchecks may have
\* overwritten since); it belongs to the final health whenever that is
\* the health this upcheck wrote.
C25_LastMaintenanceMatchesOwnWrite ==
  \A t \in Tasks :
    LastUpcheckDone(t) =>
      /\ MaintenanceDone(calls[t]) = MaintenanceFor(UpcheckNewState(probe[t]))
      /\ state = UpcheckNewState(probe[t]) => MaintenanceDone(calls[t]) = MaintenanceFor(state)

\* The upcheck that completed last wrote AuthFailed and cleared the
\* caches, after a concurrent upcheck had written Synced and refreshed.
C25_Witness ==
  \E t \in Tasks : /\ LastUpcheckDone(t) /\ probe[t] = "Auth"
                   /\ MaintenanceDone(calls[t]) = "Clear"
                   /\ state = "Synced"

====
